---- MODULE Spec2Model ----
(***************************************************************************)
(* Model of the AI-enhanced security assessment framework:                 *)
(*   - TestRunner.run and its stages         (src/unnamed/part_001)        *)
(*   - AIAnalyzer                            (src/src/ai-analyzer.js)      *)
(*   - ZAPClient.getScanSummary / getAlerts  (src/src/zap-client.js)       *)
(*                                                                         *)
(* Numbers with one decimal place (risk scores) are kept as integers in    *)
(* tenths: 75 stands for 7.5, 100 for 10.0.                                *)
(***************************************************************************)
EXTENDS Integers, Sequences, FiniteSets, TLC

(***************************************************************************)
(* Bounds of the model.                                                    *)
(***************************************************************************)
\* longest finding list drawn exhaustively
MaxLen == 3
\* largest config.ai.rateLimits.maxVulnerabilities drawn
MaxBudget == 3
\* largest config.ai.rateLimits.batchSize drawn
MaxBatch == 2
\* how far the loop index of a non-terminating batch loop is followed
MaxSpin == 3

\* longest finding list drawn for calculateRiskScore
MaxScored == 2
\* longest executive-summary prompt drawn, in characters
MaxPrompt == 9
\* largest config.ai.fallback.tokenLimit drawn
MaxTokenLimit == 2

\* longest alert list the scanner returns in a run of the TestRunner
MaxAlerts == 2
\* most test scenarios run in a run of the TestRunner
MaxTests == 1

\* latest clock value reached while generateFallbackSummary is called
MaxClock == 3
\* calls of generateFallbackSummary made on one scanResults object
MaxCalls == 2

Min(a, b) == IF a < b THEN a ELSE b
Max(a, b) == IF a > b THEN a ELSE b

(***************************************************************************)
(* Findings.  A finding is the scanner's alert object; id is its position  *)
(* in the list returned by the scanner, risk is alert.risk, aiAnalysis is  *)
(* the enrichment attached by analyzeVulnerability (present = FALSE: the   *)
(* property is absent).                                                    *)
(***************************************************************************)
Risks == {"High", "Medium", "Low", "Informational"}
\* a risk value the scanner may send that is in none of the tables
UnknownRisk == "Unknown"
ScannerRisks == Risks \cup {UnknownRisk}

\* String.prototype.toLowerCase on the risk values
ToLowerCase(r) ==
  CASE r = "High" -> "high"
    [] r = "Medium" -> "medium"
    [] r = "Low" -> "low"
    [] r = "Informational" -> "informational"
    [] OTHER -> "unknown"

(***************************************************************************)
(* A section of provider text, as extractSection returns it: the empty     *)
(* string, words without any digit, or text whose first numeric token is   *)
(* v tenths ("signed": the token is preceded by a minus sign, which the    *)
(* pattern of extractNumericValue does not match).                         *)
(***************************************************************************)
EmptyString == [t |-> "empty", v |-> 0]
Words == [t |-> "words", v |-> 0]
Num(v) == [t |-> "num", v |-> v]
Signed(v) == [t |-> "signed", v |-> v]
\* numeric tokens drawn, in tenths: 0, 0.1, 7.5, 10, 10.1, 60, 150
ScoreTokens == {0, 1, 75, 100, 101, 600, 1500}
Sections == {EmptyString, Words} \cup {Num(v) : v \in ScoreTokens} \cup {Signed(50)}

\* JavaScript truthiness of a string
Truthy(s) == s.t # "empty"

NoAnalysis == [present |-> FALSE, businessRiskScore |-> EmptyString,
               falsePositiveScore |-> EmptyString]

Finding(id, risk) == [id |-> id, risk |-> risk, aiAnalysis |-> NoAnalysis]

(***************************************************************************)
(* Provider outcomes.  A failure kind, or a text whose sections are given  *)
(* by header; a header that is missing from the text has t = "absent".     *)
(***************************************************************************)
Absent == [t |-> "absent", v |-> 0]
ProviderFailures == {"throws", "timeout", "refused", "ratelimited", "null", "empty"}
Failure(k) == [kind |-> k, risk |-> Absent, fp |-> Absent]
Text(risk, fp) == [kind |-> "text", risk |-> risk, fp |-> fp]
Null == [kind |-> "null", risk |-> Absent, fp |-> Absent]

\* extractSection handing on the failed match instead of ''
ExtractSectionUnmatched(text, sectionName) ==
  IF text.kind # "text" THEN EmptyString
  ELSE IF sectionName = "BUSINESS RISK SCORE" THEN text.risk
  ELSE IF sectionName = "FALSE POSITIVE ASSESSMENT" THEN text.fp
  ELSE Absent

\* AIAnalyzer.extractSection: '' when the header is missing; the provider
\* texts drawn hold at most the two sections with a number
ExtractSection(text, sectionName) ==
  IF text.kind # "text" THEN EmptyString
  ELSE LET s == IF sectionName = "BUSINESS RISK SCORE" THEN text.risk
                ELSE IF sectionName = "FALSE POSITIVE ASSESSMENT" THEN text.fp
                ELSE Absent
       IN IF s.t = "absent" THEN EmptyString ELSE s

\* AIAnalyzer.extractNumericValue: first numeric token, 0 when there is none
ExtractNumericValue(text) ==
  IF ~Truthy(text) THEN 0
  ELSE IF text.t \in {"num", "signed"} THEN text.v ELSE 0

\* the provider call itself: the client throws on a transport error, a
\* timeout, a refused connection and a rate-limit rejection
RaisingFailures == {"throws", "timeout", "refused", "ratelimited"}
Raise == [kind |-> "raise", risk |-> Absent, fp |-> Absent]
ProviderCall(outcome) == IF outcome.kind \in RaisingFailures THEN Raise ELSE outcome

\* AIAnalyzer.makeAIRequest / makeOllamaRequest: an exception of the provider
\* call is caught and turned into null; null or empty content is null
MakeAIRequest(enabled, outcome) ==
  IF ~enabled THEN Null
  ELSE LET response == ProviderCall(outcome)
       IN IF response.kind = "raise" THEN Null
          ELSE IF response.kind \in {"null", "empty"} THEN Null
          ELSE response

\* AIAnalyzer.analyzeVulnerability without the test of the provider's answer
AnalyzeVulnerabilityUnchecked(enabled, vulnerability, outcome) ==
  IF ~enabled THEN [threw |-> FALSE, value |-> vulnerability]
  ELSE LET analysis == MakeAIRequest(enabled, outcome)
       IN [threw |-> FALSE,
           value |-> [vulnerability EXCEPT !.aiAnalysis =
                  [present |-> TRUE,
                   businessRiskScore |-> ExtractSection(analysis, "BUSINESS RISK SCORE"),
                   falsePositiveScore |-> ExtractSection(analysis, "FALSE POSITIVE ASSESSMENT")]]]

\* AIAnalyzer.analyzeVulnerability: threw tells whether the call raised to
\* its caller, value is what it returned
AnalyzeVulnerability(enabled, vulnerability, outcome) ==
  IF ~enabled THEN [threw |-> FALSE, value |-> vulnerability]
  ELSE LET analysis == MakeAIRequest(enabled, outcome)
       IN IF analysis.kind = "raise"
          THEN [threw |-> FALSE, value |-> vulnerability]
          ELSE IF analysis.kind = "text"
          THEN [threw |-> FALSE,
                value |-> [vulnerability EXCEPT !.aiAnalysis =
                  [present |-> TRUE,
                   businessImpact |-> ExtractSection(analysis, "BUSINESS IMPACT"),
                   technicalSeverity |-> ExtractSection(analysis, "TECHNICAL SEVERITY"),
                   exploitationLikelihood |-> ExtractSection(analysis, "EXPLOITATION LIKELIHOOD"),
                   falsePositiveScore |-> ExtractSection(analysis, "FALSE POSITIVE ASSESSMENT"),
                   remediationSteps |-> ExtractSection(analysis, "REMEDIATION STEPS"),
                   codeExamples |-> ExtractSection(analysis, "CODE EXAMPLES"),
                   businessRiskScore |-> ExtractSection(analysis, "BUSINESS RISK SCORE")]]]
          ELSE [threw |-> FALSE, value |-> vulnerability]

(***************************************************************************)
(* Array.prototype.slice(start, end) with JavaScript's index rules.        *)
(***************************************************************************)
RelIndex(n, k) == IF k < 0 THEN Max(n + k, 0) ELSE Min(k, n)
JsSlice(s, start, end) ==
  LET from == RelIndex(Len(s), start)
      to == RelIndex(Len(s), end)
  IN IF from >= to THEN <<>> ELSE SubSeq(s, from + 1, to)

(***************************************************************************)
(* AIAnalyzer.prioritizeVulnerabilities: Array.prototype.sort (stable,     *)
(* in place) with the risk comparator.                                     *)
(***************************************************************************)
RiskOrder(r) ==
  CASE r = "high" -> 4
    [] r = "medium" -> 3
    [] r = "low" -> 2
    [] r = "informational" -> 1
    [] OTHER -> 0

Compare(a, b) == RiskOrder(ToLowerCase(b.risk)) - RiskOrder(ToLowerCase(a.risk))

\* insertion that puts an element in front of the elements it ties with
RECURSIVE SortInsertUnstable(_, _)
SortInsertUnstable(s, x) ==
  IF s = <<>> THEN <<x>>
  ELSE IF Compare(Head(s), x) < 0
       THEN <<Head(s)>> \o SortInsertUnstable(Tail(s), x)
       ELSE <<x>> \o s

RECURSIVE SortInsert(_, _)
SortInsert(s, x) ==
  IF s = <<>> THEN <<x>>
  ELSE IF Compare(Head(s), x) <= 0
       THEN <<Head(s)>> \o SortInsert(Tail(s), x)
       ELSE <<x>> \o s

RECURSIVE PrioritizeVulnerabilities(_)
PrioritizeVulnerabilities(vulns) ==
  IF vulns = <<>> THEN <<>>
  ELSE SortInsert(PrioritizeVulnerabilities(SubSeq(vulns, 1, Len(vulns) - 1)),
                  vulns[Len(vulns)])

(***************************************************************************)
(* AIAnalyzer.calculateRiskScore.  Scores are kept in twentieths while     *)
(* they are summed ((base + ai) / 2 with ai in tenths), the result is in   *)
(* tenths.  The argument is [defined, list]: defined = FALSE stands for a  *)
(* null or undefined argument.                                             *)
(***************************************************************************)
Missing == [defined |-> FALSE, list |-> <<>>]
Given(list) == [defined |-> TRUE, list |-> list]

\* lines 675-690: base score from the scanner's risk level
BaseScore(risk) ==
  LET r == ToLowerCase(risk)
  IN CASE r = "high" -> 8
       [] r = "medium" -> 5
       [] r = "low" -> 2
       [] r = "informational" -> 1
       [] OTHER -> 3

\* the score of one finding with the range test on the AI score left out
VulnScoreUnbounded(vuln) ==
  LET score == BaseScore(vuln.risk)
  IN IF vuln.aiAnalysis.present /\ Truthy(vuln.aiAnalysis.businessRiskScore)
     THEN 10 * score + ExtractNumericValue(vuln.aiAnalysis.businessRiskScore)
     ELSE 20 * score

\* lines 672-698: the score of one finding, in twentieths
VulnScore(vuln) ==
  LET score == BaseScore(vuln.risk)
  IN IF vuln.aiAnalysis.present /\ Truthy(vuln.aiAnalysis.businessRiskScore)
     THEN LET aiScore == ExtractNumericValue(vuln.aiAnalysis.businessRiskScore)
          IN IF aiScore > 0 /\ aiScore <= 100
             THEN 10 * score + aiScore
             ELSE 20 * score
     ELSE 20 * score

RECURSIVE TotalScore(_)
TotalScore(list) ==
  IF list = <<>> THEN 0 ELSE VulnScore(Head(list)) + TotalScore(Tail(list))

\* Math.round(x * 10) / 10 of x = total / (20 * count), in tenths
RoundToTenth(total, count) == (total + count) \div (2 * count)

CalculateRiskScore(arg) ==
  IF ~arg.defined \/ Len(arg.list) = 0 THEN 0
  ELSE LET totalScore == TotalScore(arg.list)
           scoredCount == Len(arg.list)
       IN IF scoredCount > 0 THEN RoundToTenth(totalScore, scoredCount) ELSE 0

(***************************************************************************)
(* AIAnalyzer.generateExecutiveSummary.                                    *)
(***************************************************************************)
\* AIAnalyzer.estimateTokens: Math.ceil(text.length / 4)
EstimateTokens(length) == (length + 3) \div 4

\* AIAnalyzer.generateFallbackSummary: posture from the risk counts of the
\* scanResults argument (a count that is missing reads as 0)
FallbackPosture(high, medium, low) ==
  IF high > 3 THEN "Critical Issues Identified"
  ELSE IF high > 0 \/ medium > 5 THEN "Security Concerns Present"
  ELSE IF medium > 0 \/ low > 10 THEN "Minor Issues Detected"
  ELSE "Good"

\* lines 620-648 and 655: the fields of the object that are computed from
\* scanResults
GenerateFallbackSummary(scanResults) ==
  LET total == scanResults.totalFindings
      high == scanResults.riskBreakdown.High
      medium == scanResults.riskBreakdown.Medium
      low == scanResults.riskBreakdown.Low
  IN [summary |-> "rule-based", total |-> total, high |-> high, medium |-> medium,
      low |-> low, overallPosture |-> FallbackPosture(high, medium, low),
      method |-> "rule-based-fallback"]

\* the object with a narrative field that embeds the time of the call
GenerateFallbackSummaryDated(scanResults, time) ==
  LET r == GenerateFallbackSummary(scanResults)
  IN [summary |-> r.summary, total |-> r.total, high |-> r.high, medium |-> r.medium,
      low |-> r.low, overallPosture |-> <<r.overallPosture, time>>, method |-> r.method,
      generatedAt |-> time]

\* lines 646-656: the object returned by generateFallbackSummary, with
\* generatedAt: new Date().toISOString() read from the clock
GenerateFallbackSummaryAt(scanResults, time) ==
  LET r == GenerateFallbackSummary(scanResults)
  IN [summary |-> r.summary, total |-> r.total, high |-> r.high, medium |-> r.medium,
      low |-> r.low, overallPosture |-> r.overallPosture, method |-> r.method,
      generatedAt |-> time]

\* line 565 with the comparison the wrong way round
TooLargeInverted(estimatedTokens, tokenLimit, enableRuleBasedSummary) ==
  estimatedTokens < tokenLimit /\ enableRuleBasedSummary

\* line 565: the prompt is too large and the rule-based summary is allowed
TooLarge(estimatedTokens, tokenLimit, enableRuleBasedSummary) ==
  estimatedTokens > tokenLimit /\ enableRuleBasedSummary

\* the object returned when the analyzer is disabled has no method
DisabledSummary ==
  [summary |-> "disabled-notice", total |-> 0, high |-> 0, medium |-> 0, low |-> 0,
   overallPosture |-> "undefined", method |-> "undefined"]

GenerateExecutiveSummary(enabled, scanResults, promptLength, tokenLimit, enableRuleBasedSummary, outcome) ==
  IF ~enabled THEN DisabledSummary
  ELSE LET estimatedTokens == EstimateTokens(promptLength)
       IN IF TooLarge(estimatedTokens, tokenLimit, enableRuleBasedSummary)
          THEN GenerateFallbackSummary(scanResults)
          ELSE LET summary == MakeAIRequest(enabled, outcome)
               IN IF summary.kind = "text"
                  THEN [summary |-> "provider-text", total |-> 0, high |-> 0,
                        medium |-> 0, low |-> 0, overallPosture |-> "extracted",
                        method |-> "ai-generated"]
                  ELSE GenerateFallbackSummary(scanResults)

\* line 570: whether generateExecutiveSummary sends its prompt to the provider
SummaryRequested(enabled, promptLength, tokenLimit, enableRuleBasedSummary) ==
  enabled /\ ~TooLarge(EstimateTokens(promptLength), tokenLimit, enableRuleBasedSummary)

(***************************************************************************)
(* Finding lists drawn as inputs: every list of at most MaxLen findings    *)
(* over the scanner's risk values, and the five findings of Scenario A.    *)
(***************************************************************************)
ListOf(risks) == [j \in 1..Len(risks) |-> Finding(j, risks[j])]
ScenarioA == ListOf(<<"High", "Medium", "Low", "Informational", "High">>)
FindingLists ==
  {ListOf(f) : f \in UNION {[1..n -> ScannerRisks] : n \in 0..MaxLen}} \cup {ScenarioA}

\* provider outcomes drawn for one enrichment request
RequestOutcomes ==
  {Failure(k) : k \in ProviderFailures}
    \cup {Text(Num(75), Num(900)), Text(Absent, Absent)}

\* provider outcomes drawn for a request made inside a run of the
\* TestRunner: an exception, an empty answer, a text
RunOutcomes == {Failure("timeout"), Failure("empty"), Text(Num(75), Num(900))}

(***************************************************************************)
(* State.                                                                  *)
(***************************************************************************)
VARIABLES
  \* AIAnalyzer and its configuration (config.ai)
  isEnabled,               \* this.isEnabled
  rateLimits,              \* config.ai.rateLimits is defined
  batchSize,               \* config.ai.rateLimits.batchSize
  maxVulnerabilities,      \* config.ai.rateLimits.maxVulnerabilities
  \* one call of analyzeVulnerabilities
  apc,                     \* position in analyzeVulnerabilities
  input,                   \* the caller's array as it was at the call
  vulnerabilities,         \* the caller's array (sorted in place)
  maxAnalyze,
  toAnalyze,
  batch,                   \* rest of the current batch
  i,
  analyzedVulnerabilities,
  returned,                \* the list returned to the caller
  requests,                \* calls of makeAIRequest made so far
  providerRequests,        \* requests sent to the provider so far
  client,                  \* the provider has a client (this.client, or ollama)
  lastOutcome,             \* outcome of the latest provider request
  threw,                   \* analyzeVulnerability raised to its caller
  requestDelays,           \* delayBetweenRequests waits so far
  batchDelays,             \* delayBetweenBatches waits so far
  \* one call of calculateRiskScore
  spc,                     \* position in calculateRiskScore
  scoreArg,                \* its argument
  riskScore,               \* its result, in tenths
  \* one call of generateExecutiveSummary
  xpc,                     \* position in generateExecutiveSummary
  scanResults,             \* its argument
  promptLength,            \* prompt.length
  tokenLimit,              \* config.ai.fallback.tokenLimit
  enableRuleBasedSummary,  \* config.ai.fallback.enableRuleBasedSummary
  summaryOutcome,          \* outcome of the provider request, if one is made
  summaryRequests,         \* provider requests made by the call
  executiveSummary,        \* the object returned
  \* TestRunner.run
  pc,                      \* next stage of run
  aiEnabled,               \* config.ai.enabled
  results,                 \* this.results
  runResult,               \* what run returned
  alerts,                  \* the alerts as the scanner returned them
  zapCalls,                \* scanner operations called by runSecurityScan
  failed,                  \* stages whose collaborator failed in this run
  warned,                  \* stages for which run logged its warning
  browser,                 \* browser of the test scenarios
  reportCalls,             \* calls of reportGenerator.generateReport
  cleanups                 \* calls of cleanup

analyzeVars == <<isEnabled, rateLimits, batchSize, maxVulnerabilities, apc, input, vulnerabilities,
                 maxAnalyze, toAnalyze, batch, i, analyzedVulnerabilities, returned,
                 requests, providerRequests, client, lastOutcome, threw, requestDelays,
                 batchDelays>>

scoreVars == <<spc, scoreArg, riskScore>>
summaryVars == <<xpc, scanResults, promptLength, tokenLimit, enableRuleBasedSummary,
                 summaryOutcome, summaryRequests, executiveSummary>>
runVars == <<pc, aiEnabled, results, runResult, alerts, zapCalls, failed, warned,
             browser, reportCalls, cleanups>>

(***************************************************************************)
(* State of the calls that are specified on their own.                     *)
(***************************************************************************)
VARIABLES
  \* calls of generateFallbackSummary on one scanResults object
  fpc,                     \* "idle", or "calling" while calls are made
  now,                     \* the clock read by new Date()
  fallbackArg,             \* the scanResults object passed to every call
  fallbackSummaries        \* the objects returned, in call order

fallbackVars == <<fpc, now, fallbackArg, fallbackSummaries>>

VARIABLES
  \* one call of analyzeVulnerability
  epc,                     \* "idle", "called" or "returned"
  enrichArg,               \* the finding passed in
  enrichResponse,          \* the outcome of the provider request
  enriched                 \* the finding returned

enrichVars == <<epc, enrichArg, enrichResponse, enriched>>

VARIABLES
  \* the process started by index.js
  exitCode,                \* code passed to process.exit, -1 while running
  signal                   \* the signal handled, "none" when there was none

mainVars == <<exitCode, signal>>

VARIABLES
  \* one call of condenseScanResults
  cpc,                     \* "idle", "called" or "returned"
  condenseArg,             \* scanResults.findings
  digest                   \* topFindings of the object returned

condenseVars == <<cpc, condenseArg, digest>>

VARIABLES
  \* one call of waitForSpiderCompletion or waitForActiveScanCompletion
  wpc,                     \* "idle", "while", "poll", "sleep", "hung" or "returned"
  waitFor,                 \* "spider" or "ascan"
  timeoutMs,               \* the timeout, in ticks of 5 seconds
  elapsed,                 \* Date.now() - startTime, in ticks
  progress,                \* result of the latest status poll
  polls,                   \* status polls answered so far
  waitResult               \* "none" until the call returns "true" or "false"

waitVars == <<wpc, waitFor, timeoutMs, elapsed, progress, polls, waitResult>>

VARIABLES
  \* one call of startSpider or startActiveScan
  kpc,                     \* "idle", "include", "mode", "full", "minimal", "basic", "returned", "threw"
  startKind,               \* "spider" or "ascan"
  zapMode,                 \* the mode the scanner is in
  recurse,                 \* config.zap.spider.recurse / config.zap.activeScan.recurse
  maxChildren,             \* config.zap.spider.maxChildren
  failedAttempts,          \* attempts of the call that have failed so far
  sent,                    \* the scan-start requests sent, in order
  scanId                   \* the value returned

startVars == <<kpc, startKind, zapMode, recurse, maxChildren, failedAttempts, sent, scanId>>

moreVars == <<condenseVars, waitVars, startVars>>

otherVars == <<fallbackVars, enrichVars, mainVars, moreVars>>

vars == <<analyzeVars, scoreVars, summaryVars, runVars, otherVars>>


\* the outcomes drawn for the next provider request
ProviderOutcomes == IF pc = "idle" THEN RequestOutcomes ELSE RunOutcomes

NoSummary ==
  [summary |-> "null", total |-> 0, high |-> 0, medium |-> 0, low |-> 0,
   overallPosture |-> "null", method |-> "null"]
NoScanResults == [totalFindings |-> 0, riskBreakdown |-> [High |-> 0, Medium |-> 0, Low |-> 0]]

\* TestRunner constructor: this.results
NewResults ==
  [testResults |-> <<>>,
   testSummary |-> [total |-> 0, passed |-> 0, failed |-> 0],
   securitySummary |-> [totalAlerts |-> 0, high |-> 0, medium |-> 0, low |-> 0],
   vulnerabilities |-> <<>>,
   executiveSummary |-> NoSummary,
   overallRiskScore |-> 0,
   falsePositives |-> <<>>]

NotReturned == [returned |-> FALSE, success |-> FALSE, results |-> FALSE, reportPaths |-> FALSE]

ScoreIdle == spc = "idle" /\ scoreArg = Missing /\ riskScore = 0

SummaryIdle ==
  /\ xpc = "idle" /\ scanResults = NoScanResults /\ promptLength = 0
  /\ tokenLimit = 1 /\ enableRuleBasedSummary = TRUE
  /\ summaryOutcome = Null /\ summaryRequests = 0 /\ executiveSummary = NoSummary

RunIdle ==
  /\ pc = "idle" /\ aiEnabled = TRUE /\ results = NewResults /\ runResult = NotReturned
  /\ alerts = <<>> /\ zapCalls = <<>> /\ failed = {} /\ warned = {}
  /\ browser = "none" /\ reportCalls = 0 /\ cleanups = 0

AnalyzeIdle ==
  /\ apc = "idle"
  /\ input = <<>> /\ vulnerabilities = <<>>
  /\ maxAnalyze = 0 /\ toAnalyze = <<>> /\ batch = <<>> /\ i = 0
  /\ analyzedVulnerabilities = <<>> /\ returned = <<>>
  /\ requests = 0 /\ lastOutcome = Null /\ threw = FALSE /\ requestDelays = 0 /\ batchDelays = 0
  /\ providerRequests = 0 /\ client = TRUE

FallbackIdle ==
  /\ fpc = "idle" /\ now = 0 /\ fallbackArg = NoScanResults /\ fallbackSummaries = <<>>

EnrichIdle ==
  /\ epc = "idle" /\ enrichArg = Finding(1, "High") /\ enrichResponse = Null
  /\ enriched = Finding(1, "High")

MainIdle == exitCode = -1 /\ signal = "none"

CondenseIdle == cpc = "idle" /\ condenseArg = <<>> /\ digest = <<>>

WaitIdle ==
  /\ wpc = "idle" /\ waitFor = "spider" /\ timeoutMs = 0 /\ elapsed = 0
  /\ progress = 0 /\ polls = 0 /\ waitResult = "none"

StartIdle ==
  /\ kpc = "idle" /\ startKind = "spider" /\ zapMode = "safe" /\ recurse = TRUE
  /\ maxChildren = 0 /\ failedAttempts = 0 /\ sent = <<>> /\ scanId = "none"

MoreIdle == CondenseIdle /\ WaitIdle /\ StartIdle

OtherIdle == FallbackIdle /\ EnrichIdle /\ MainIdle /\ MoreIdle

\* the rest of the array, taken one element too late
RemainingSkipsOne(vulns, m) == JsSlice(vulns, m + 1, Len(vulns))

\* line 460: vulnerabilities.slice(maxAnalyze)
Remaining(vulns, m) == JsSlice(vulns, m, Len(vulns))

(***************************************************************************)
(* analyzeVulnerabilities, step by step (one action per await point).      *)
(***************************************************************************)
\* lines 411-430: early return, prioritization, budget
AnalyzeVulnerabilitiesCall ==
  /\ apc = "called"
  /\ IF ~isEnabled \/ Len(vulnerabilities) = 0
     THEN /\ returned' = vulnerabilities
          /\ apc' = "returned"
          /\ UNCHANGED <<vulnerabilities, maxAnalyze, toAnalyze>>
     ELSE LET prioritized == PrioritizeVulnerabilities(vulnerabilities)
              m == Min(Len(prioritized), maxVulnerabilities)
          IN /\ vulnerabilities' = prioritized
             /\ IF rateLimits
                THEN /\ maxAnalyze' = m
                     /\ toAnalyze' = JsSlice(prioritized, 0, m)
                     /\ apc' = "for"
                ELSE \* line 422: reading a property of undefined raises
                     /\ apc' = "threw"
                     /\ UNCHANGED <<maxAnalyze, toAnalyze>>
             /\ UNCHANGED returned
  /\ UNCHANGED <<isEnabled, rateLimits, batchSize, maxVulnerabilities, input, batch, i,
                 analyzedVulnerabilities, requests, providerRequests, client, lastOutcome, threw,
                 requestDelays, batchDelays>>
  /\ UNCHANGED <<scoreVars, summaryVars, runVars>>
  /\ UNCHANGED otherVars

\* lines 432-434: loop test and the batch of this round
BatchStart ==
  /\ apc = "for"
  /\ i < Len(toAnalyze)
  /\ batch' = JsSlice(toAnalyze, i, i + batchSize)
  /\ apc' = "batch"
  /\ UNCHANGED <<isEnabled, rateLimits, batchSize, maxVulnerabilities, input, vulnerabilities,
                 maxAnalyze, toAnalyze, i, analyzedVulnerabilities, returned,
                 requests, providerRequests, client, lastOutcome, threw, requestDelays,
                 batchDelays>>
  /\ UNCHANGED <<scoreVars, summaryVars, runVars>>
  /\ UNCHANGED otherVars

\* makeAIRequest lines 239-265: with a client (or ollama) the provider is
\* asked; without one null is returned and no request is sent
ClientOutcomes == IF client THEN ProviderOutcomes ELSE {Null}

\* lines 436-450: one finding of the batch: request, push, delay; when the
\* call raises, the catch pushes the finding as it was and skips the delay
AnalyzeNext ==
  /\ apc = "batch"
  /\ batch # <<>>
  /\ \E outcome \in ClientOutcomes :
       LET analyzed == AnalyzeVulnerability(isEnabled, Head(batch), outcome)
       IN /\ analyzedVulnerabilities' =
               Append(analyzedVulnerabilities,
                      IF analyzed.threw THEN Head(batch) ELSE analyzed.value)
          /\ threw' = (threw \/ analyzed.threw)
          /\ requestDelays' = IF analyzed.threw THEN requestDelays ELSE requestDelays + 1
          /\ lastOutcome' = outcome
  /\ batch' = Tail(batch)
  /\ requests' = requests + 1
  /\ providerRequests' = IF client THEN providerRequests + 1 ELSE providerRequests
  /\ UNCHANGED <<isEnabled, rateLimits, batchSize, maxVulnerabilities, apc, input, vulnerabilities,
                 maxAnalyze, toAnalyze, i, returned, batchDelays, client>>
  /\ UNCHANGED <<scoreVars, summaryVars, runVars>>
  /\ UNCHANGED otherVars

\* lines 452-456 and the loop increment i += batchSize
BatchEnd ==
  /\ apc = "batch"
  /\ batch = <<>>
  /\ batchSize > 0 \/ batchDelays < MaxSpin
  /\ batchDelays' = IF i + batchSize < Len(toAnalyze) THEN batchDelays + 1 ELSE batchDelays
  /\ i' = i + batchSize
  /\ apc' = "for"
  /\ UNCHANGED <<isEnabled, rateLimits, batchSize, maxVulnerabilities, input, vulnerabilities,
                 maxAnalyze, toAnalyze, batch, analyzedVulnerabilities, returned,
                 requests, providerRequests, client, lastOutcome, threw, requestDelays>>
  /\ UNCHANGED <<scoreVars, summaryVars, runVars>>
  /\ UNCHANGED otherVars

\* lines 459-464: the loop is over, append the rest of the caller's array
AnalyzeVulnerabilitiesReturn ==
  /\ apc = "for"
  /\ ~(i < Len(toAnalyze))
  /\ LET remaining == Remaining(vulnerabilities, maxAnalyze)
     IN /\ analyzedVulnerabilities' = analyzedVulnerabilities \o remaining
        /\ returned' = analyzedVulnerabilities \o remaining
  /\ apc' = "returned"
  /\ UNCHANGED <<isEnabled, rateLimits, batchSize, maxVulnerabilities, input, vulnerabilities,
                 maxAnalyze, toAnalyze, batch, i, requests, providerRequests, client,
                 lastOutcome, threw, requestDelays, batchDelays>>
  /\ UNCHANGED <<scoreVars, summaryVars, runVars>>
  /\ UNCHANGED otherVars

(***************************************************************************)
(* Specification of one call of analyzeVulnerabilities on drawn inputs.    *)
(***************************************************************************)
BatchSizes == -1..MaxBatch
Budgets == -1..MaxBudget

InitAnalyze ==
  /\ isEnabled \in BOOLEAN
  /\ rateLimits = TRUE
  /\ batchSize \in BatchSizes
  /\ maxVulnerabilities \in Budgets
  /\ apc = "called"
  /\ input \in FindingLists
  /\ vulnerabilities = input
  /\ maxAnalyze = 0 /\ toAnalyze = <<>> /\ batch = <<>> /\ i = 0
  /\ analyzedVulnerabilities = <<>> /\ returned = <<>>
  /\ requests = 0 /\ lastOutcome = Null /\ threw = FALSE /\ requestDelays = 0 /\ batchDelays = 0
  /\ providerRequests = 0 /\ client \in BOOLEAN
  /\ ScoreIdle /\ SummaryIdle /\ RunIdle
  /\ OtherIdle

NextAnalyze ==
  \/ AnalyzeVulnerabilitiesCall
  \/ BatchStart
  \/ AnalyzeNext
  \/ BatchEnd
  \/ AnalyzeVulnerabilitiesReturn

SpecAnalyze == InitAnalyze /\ [][NextAnalyze]_vars

(***************************************************************************)
(* Specification of one call of calculateRiskScore on drawn inputs.        *)
(***************************************************************************)
\* enrichments a finding may carry: none, or one with any risk score section
Analyses ==
  {NoAnalysis} \cup
  {[present |-> TRUE, businessRiskScore |-> sec, falsePositiveScore |-> EmptyString] :
     sec \in Sections}
ScoredFindings == {[id |-> 0, risk |-> r, aiAnalysis |-> a] : r \in ScannerRisks, a \in Analyses}
ScoreArgs ==
  {Missing} \cup {Given(l) : l \in UNION {[1..n -> ScoredFindings] : n \in 0..MaxScored}}

CalculateRiskScoreCall ==
  /\ spc = "called"
  /\ riskScore' = CalculateRiskScore(scoreArg)
  /\ spc' = "returned"
  /\ UNCHANGED <<scoreArg, analyzeVars, summaryVars, runVars>>
  /\ UNCHANGED otherVars

InitScore ==
  /\ spc = "called" /\ scoreArg \in ScoreArgs /\ riskScore = 0
  /\ isEnabled = TRUE /\ rateLimits = TRUE /\ batchSize = 1 /\ maxVulnerabilities = 0 /\ AnalyzeIdle
  /\ SummaryIdle /\ RunIdle
  /\ OtherIdle

NextScore == CalculateRiskScoreCall

SpecScore == InitScore /\ [][NextScore]_vars

(***************************************************************************)
(* Specification of one call of generateExecutiveSummary on drawn inputs.  *)
(***************************************************************************)
TokenLimits == 1..MaxTokenLimit
PromptLengths == 0..MaxPrompt
RiskCounts == {0, 1, 4}
ScanResultsArgs ==
  {[totalFindings |-> h + m, riskBreakdown |-> [High |-> h, Medium |-> m, Low |-> 0]] :
     h \in RiskCounts, m \in {0, 1}}

GenerateExecutiveSummaryCall ==
  /\ xpc = "called"
  /\ \E outcome \in ProviderOutcomes :
       LET asked == SummaryRequested(isEnabled, promptLength, tokenLimit, enableRuleBasedSummary)
       IN /\ executiveSummary' =
               GenerateExecutiveSummary(isEnabled, scanResults, promptLength, tokenLimit,
                                        enableRuleBasedSummary, outcome)
          /\ summaryRequests' = IF asked THEN summaryRequests + 1 ELSE summaryRequests
          /\ summaryOutcome' = IF asked THEN outcome ELSE summaryOutcome
  /\ xpc' = "returned"
  /\ UNCHANGED <<scanResults, promptLength, tokenLimit, enableRuleBasedSummary,
                 analyzeVars, scoreVars, runVars>>
  /\ UNCHANGED otherVars

InitSummary ==
  /\ xpc = "called"
  /\ scanResults \in ScanResultsArgs
  /\ promptLength \in PromptLengths
  /\ tokenLimit \in TokenLimits
  /\ enableRuleBasedSummary \in BOOLEAN
  /\ summaryOutcome = Null /\ summaryRequests = 0 /\ executiveSummary = NoSummary
  /\ isEnabled \in BOOLEAN /\ rateLimits = TRUE /\ batchSize = 1 /\ maxVulnerabilities = 0 /\ AnalyzeIdle
  /\ ScoreIdle /\ RunIdle
  /\ OtherIdle

NextSummary == GenerateExecutiveSummaryCall

SpecSummary == InitSummary /\ [][NextSummary]_vars

(***************************************************************************)
(* TestRunner.run: one action per stage; the calls of the analyzer made by *)
(* runAIAnalysis are the actions of the analyzer above.                    *)
(***************************************************************************)
\* the alert lists the scanner returns in a run
RunRisks == {"High", "Low"}
AlertLists == {ListOf(f) : f \in UNION {[1..n -> RunRisks] : n \in 0..MaxAlerts}}

\* the records of runAllTests: success of each scenario run
TestRecords == UNION {[1..n -> BOOLEAN] : n \in 0..MaxTests}

CountRisk(list, risk) == Cardinality({j \in DOMAIN list : list[j].risk = risk})

\* ZAPClient.getScanSummary on the alerts retrieved
GetScanSummary(list) ==
  [totalAlerts |-> Len(list),
   high |-> CountRisk(list, "High"),
   medium |-> CountRisk(list, "Medium"),
   low |-> CountRisk(list, "Low"),
   informational |-> CountRisk(list, "Informational"),
   alerts |-> list]

\* TestScenarios.runAllTests: the summary of the records
TestSummary(records) ==
  LET passCount == Cardinality({j \in DOMAIN records : records[j]})
  IN [total |-> Len(records), passed |-> passCount, failed |-> Len(records) - passCount]

\* TestRunner.addMockFindings
MockFindings == ListOf(<<"Medium", "High">>)
AddMockFindings(res) ==
  [res EXCEPT !.vulnerabilities = MockFindings,
              !.securitySummary =
                 [totalAlerts |-> Len(MockFindings),
                  high |-> CountRisk(MockFindings, "High"),
                  medium |-> CountRisk(MockFindings, "Medium"),
                  low |-> CountRisk(MockFindings, "Low"),
                  informational |-> CountRisk(MockFindings, "Informational")]]

\* AIAnalyzer.detectFalsePositives: findings whose false-positive score is
\* above 60 (scores are kept in tenths)
DetectFalsePositives(enabled, vulns) ==
  IF ~enabled THEN <<>>
  ELSE SelectSeq(vulns, LAMBDA vuln :
         /\ vuln.aiAnalysis.present
         /\ Truthy(vuln.aiAnalysis.falsePositiveScore)
         /\ ExtractNumericValue(vuln.aiAnalysis.falsePositiveScore) > 600)

\* run, catch block and finally: the failure result, then cleanup
Abort == [returned |-> FALSE, success |-> FALSE, results |-> FALSE, reportPaths |-> FALSE]

Init ==
  /\ pc = "initialize"
  /\ aiEnabled \in BOOLEAN
  \* AIAnalyzer constructor: config.ai.enabled, cleared when the client
  \* cannot be initialized
  /\ isEnabled \in BOOLEAN /\ (isEnabled => aiEnabled)
  /\ results = NewResults /\ runResult = NotReturned
  /\ alerts = <<>> /\ zapCalls = <<>> /\ failed = {} /\ warned = {}
  /\ browser = "none" /\ reportCalls = 0 /\ cleanups = 0
  /\ rateLimits = TRUE /\ batchSize = 1 /\ maxVulnerabilities = 0 /\ AnalyzeIdle
  /\ ScoreIdle /\ SummaryIdle
  /\ OtherIdle

\* lines 59-93 and 362-365: report generator, scanner status, browser; the
\* status object of checkZAPStatus is truthy whatever its status field is
Initialize ==
  /\ pc = "initialize"
  /\ \E reportInit \in BOOLEAN, zapStatus \in BOOLEAN, testInit \in BOOLEAN :
       /\ zapCalls' = IF reportInit
                      THEN Append(zapCalls, IF zapStatus THEN "version" ELSE "version:unreachable")
                      ELSE zapCalls
       /\ browser' = IF reportInit /\ testInit THEN "open" ELSE browser
       /\ IF reportInit /\ testInit
          THEN /\ pc' = "setup"
               /\ UNCHANGED <<failed, runResult>>
          ELSE /\ pc' = "cleanup"
               /\ failed' = failed \cup {"Initialize"}
               /\ runResult' = Abort
  /\ UNCHANGED <<aiEnabled, results, alerts, warned, reportCalls, cleanups>>
  /\ UNCHANGED <<analyzeVars, scoreVars, summaryVars>>
  /\ UNCHANGED otherVars

\* the scanner calls of setupZAPSession, in order
SetupCalls == <<"newSession", "setMode:safe", "setPassive", "newContext", "includeInContext">>

\* checkZAPStatus reported status false in this run
ScannerUnreachable == \E j \in DOMAIN zapCalls : zapCalls[j] = "version:unreachable"

\* lines 95-120 and 368-371: the first call that raises ends the setup; a
\* scanner that was unreachable a moment ago at initialization is drawn as
\* still unreachable, so that createSession raises
SetupZAPSession ==
  /\ pc = "setup"
  /\ \E done \in 0..Len(SetupCalls) :
       /\ ScannerUnreachable => done = 0
       /\ zapCalls' = zapCalls \o SubSeq(SetupCalls, 1, done)
       /\ IF done = Len(SetupCalls)
          THEN /\ pc' = "tests"
               /\ UNCHANGED <<failed, runResult>>
          ELSE /\ pc' = "cleanup"
               /\ failed' = failed \cup {"Setup"}
               /\ runResult' = Abort
  /\ UNCHANGED <<aiEnabled, results, alerts, warned, browser, reportCalls, cleanups>>
  /\ UNCHANGED <<analyzeVars, scoreVars, summaryVars>>
  /\ UNCHANGED otherVars

\* lines 122-138 and 374-377: runAllTests raises (unknown target scenario)
\* or returns its records; a failure of the stage ends the run
RunTests ==
  /\ pc = "tests"
  /\ \/ /\ pc' = "cleanup"
        /\ failed' = failed \cup {"Tests"}
        /\ runResult' = Abort
        /\ UNCHANGED results
     \/ \E records \in TestRecords :
          /\ results' = [results EXCEPT !.testResults = records,
                                        !.testSummary = TestSummary(records)]
          /\ pc' = "scan"
          /\ UNCHANGED <<failed, runResult>>
  /\ UNCHANGED <<aiEnabled, alerts, zapCalls, warned, browser, reportCalls, cleanups>>
  /\ UNCHANGED <<analyzeVars, scoreVars, summaryVars>>
  /\ UNCHANGED otherVars

\* the scanner calls of runSecurityScan for the configured scan types; a
\* scan whose start returned null is not waited for
ScanCalls(spider, spiderScanId, active, activeScanId, passive) ==
  (IF spider THEN (IF spiderScanId THEN <<"spider", "spiderWait">> ELSE <<"spider:null">>) ELSE <<>>)
    \o (IF active THEN (IF activeScanId THEN <<"ascan", "ascanWait">> ELSE <<"ascan:null">>) ELSE <<>>)
    \o (IF passive THEN <<"alerts">> ELSE <<>>)

EmptySecuritySummary ==
  [totalAlerts |-> 0, high |-> 0, medium |-> 0, low |-> 0, informational |-> 0]

\* lines 140-219 and 380-383
RunSecurityScan ==
  /\ pc = "scan"
  /\ \/ \* an exception inside the try block: mock findings, return false
        /\ results' = AddMockFindings(results)
        /\ failed' = failed \cup {"Scan"}
        /\ warned' = warned \cup {"Scan"}
        /\ UNCHANGED <<alerts, zapCalls>>
     \/ \E spider \in BOOLEAN, spiderScanId \in BOOLEAN, active \in BOOLEAN,
           activeScanId \in BOOLEAN, passive \in BOOLEAN :
          /\ spiderScanId => spider
          /\ activeScanId => active
          /\ zapCalls' = zapCalls \o ScanCalls(spider, spiderScanId, active, activeScanId, passive)
          /\ UNCHANGED <<failed, warned>>
          /\ IF passive
             THEN \/ \E list \in AlertLists :
                       LET scanSummary == GetScanSummary(list)
                       IN /\ results' =
                               [results EXCEPT
                                  !.securitySummary =
                                     [totalAlerts |-> scanSummary.totalAlerts,
                                      high |-> scanSummary.high,
                                      medium |-> scanSummary.medium,
                                      low |-> scanSummary.low,
                                      informational |-> scanSummary.informational],
                                  !.vulnerabilities = scanSummary.alerts]
                          /\ alerts' = list
                  \/ \* getScanSummary returned null
                     /\ results' = IF Len(results.vulnerabilities) = 0
                                   THEN AddMockFindings(results) ELSE results
                     /\ UNCHANGED alerts
             ELSE /\ results' = [results EXCEPT !.securitySummary = EmptySecuritySummary,
                                                !.vulnerabilities = <<>>]
                  /\ UNCHANGED alerts
  /\ pc' = "ai"
  /\ UNCHANGED <<aiEnabled, runResult, browser, reportCalls, cleanups>>
  /\ UNCHANGED <<analyzeVars, scoreVars, summaryVars>>
  /\ UNCHANGED otherVars

\* line 266, taken for every list
HasVulnerabilitiesAlways(vulns) == TRUE

\* line 266: this.results.vulnerabilities.length > 0
HasVulnerabilities(vulns) == Len(vulns) > 0

\* the rate limits of config.ai drawn for a run
RunBatchSizes == 0..MaxBatch
RunBudgets == 0..MaxAlerts

\* lines 257-270: disabled, nothing to analyze, or the call of
\* analyzeVulnerabilities on this.results.vulnerabilities; the rate limits
\* of the configuration are drawn where they are first read
RunAIAnalysis ==
  /\ pc = "ai"
  /\ IF aiEnabled /\ HasVulnerabilities(results.vulnerabilities)
     THEN /\ pc' = "analyzeVulnerabilities"
          /\ apc' = "called"
          /\ input' = results.vulnerabilities
          /\ vulnerabilities' = results.vulnerabilities
          /\ \E limits \in BOOLEAN, size \in RunBatchSizes, budget \in RunBudgets :
               /\ (~isEnabled \/ ~limits) => (size = 1 /\ budget = 0)
               /\ ~isEnabled => limits
               /\ rateLimits' = limits
               /\ batchSize' = size
               /\ maxVulnerabilities' = budget
     ELSE /\ pc' = "report"
          /\ UNCHANGED <<apc, input, vulnerabilities, rateLimits, batchSize, maxVulnerabilities>>
  /\ UNCHANGED <<isEnabled, maxAnalyze, toAnalyze, batch, i, analyzedVulnerabilities,
                 returned, requests, providerRequests, client, lastOutcome, threw,
                 requestDelays, batchDelays>>
  /\ UNCHANGED <<aiEnabled, results, runResult, alerts, zapCalls, failed, warned,
                 browser, reportCalls, cleanups>>
  /\ UNCHANGED <<scoreVars, summaryVars>>
  /\ UNCHANGED otherVars

\* lines 271-280: the list returned replaces this.results.vulnerabilities,
\* false positives are detected, calculateRiskScore is called
DetectAndScore ==
  /\ pc = "analyzeVulnerabilities"
  /\ apc = "returned"
  /\ results' = [results EXCEPT !.vulnerabilities = returned,
                                !.falsePositives = DetectFalsePositives(isEnabled, returned)]
  /\ spc' = "called"
  /\ scoreArg' = Given(returned)
  /\ pc' = "calculateRiskScore"
  /\ UNCHANGED riskScore
  /\ UNCHANGED <<aiEnabled, runResult, alerts, zapCalls, failed, warned,
                 browser, reportCalls, cleanups>>
  /\ UNCHANGED <<analyzeVars, summaryVars>>
  /\ UNCHANGED otherVars

\* the prompt lengths drawn in a run: below and above the token limit
RunPromptLengths == {1, 4 * MaxTokenLimit + 1}

\* lines 281-290: the score is stored and generateExecutiveSummary is called
\* with an object that has none of the properties totalFindings,
\* riskBreakdown, findings and testResults, which are read as 0 or empty
Summarize ==
  /\ pc = "calculateRiskScore"
  /\ spc = "returned"
  /\ results' = [results EXCEPT !.overallRiskScore = riskScore]
  /\ xpc' = "called"
  /\ scanResults' = NoScanResults
  /\ \E length \in RunPromptLengths, enable \in BOOLEAN :
       /\ ~isEnabled => (length = 1 /\ enable)
       /\ promptLength' = length
       /\ enableRuleBasedSummary' = enable
  /\ tokenLimit' = MaxTokenLimit
  /\ pc' = "generateExecutiveSummary"
  /\ UNCHANGED <<summaryOutcome, summaryRequests, executiveSummary>>
  /\ UNCHANGED <<aiEnabled, runResult, alerts, zapCalls, failed, warned,
                 browser, reportCalls, cleanups>>
  /\ UNCHANGED <<analyzeVars, scoreVars>>
  /\ UNCHANGED otherVars

\* lines 291-298: the summary is stored, runAIAnalysis returns true
AIAnalysisCompleted ==
  /\ pc = "generateExecutiveSummary"
  /\ xpc = "returned"
  /\ results' = [results EXCEPT !.executiveSummary = executiveSummary]
  /\ pc' = "report"
  /\ UNCHANGED <<aiEnabled, runResult, alerts, zapCalls, failed, warned,
                 browser, reportCalls, cleanups>>
  /\ UNCHANGED <<analyzeVars, scoreVars, summaryVars>>
  /\ UNCHANGED otherVars

\* lines 299-302 and 387-389: analyzeVulnerabilities raised; the array of
\* this.results is the one it sorted
AIAnalysisFailed ==
  /\ pc = "analyzeVulnerabilities"
  /\ apc = "threw"
  /\ results' = [results EXCEPT !.vulnerabilities = vulnerabilities]
  /\ failed' = failed \cup {"Enrichment"}
  /\ warned' = warned \cup {"Enrichment"}
  /\ pc' = "report"
  /\ UNCHANGED <<aiEnabled, runResult, alerts, zapCalls, browser, reportCalls, cleanups>>
  /\ UNCHANGED <<analyzeVars, scoreVars, summaryVars>>
  /\ UNCHANGED otherVars

\* lines 305-343 and 392-410: the report generator renders the results or
\* raises, and run returns the success or the failure object
GenerateReport ==
  /\ pc = "report"
  /\ reportCalls' = reportCalls + 1
  /\ \E rendered \in BOOLEAN :
       /\ runResult' = [returned |-> FALSE, success |-> rendered, results |-> rendered,
                        reportPaths |-> rendered]
       /\ failed' = IF rendered THEN failed ELSE failed \cup {"Report"}
  /\ pc' = "cleanup"
  /\ UNCHANGED <<aiEnabled, results, alerts, zapCalls, warned, browser, cleanups>>
  /\ UNCHANGED <<analyzeVars, scoreVars, summaryVars>>
  /\ UNCHANGED otherVars

\* where run goes on when testScenarios.cleanup raised: the exception
\* leaves cleanup and the finally block
CleanupRaisedEscapes == "threw"

\* lines 348-356: the catch of cleanup logs the error
CleanupRaised == "done"

\* lines 345-357 and 411-413: the finally block, then run returns; closing
\* an open browser may raise
Cleanup ==
  /\ pc = "cleanup"
  /\ cleanups' = cleanups + 1
  /\ \E closed \in BOOLEAN :
       LET next == IF closed THEN "done" ELSE CleanupRaised
       IN /\ browser # "open" => closed
          /\ browser' = IF browser = "open" /\ closed THEN "closed" ELSE browser
          /\ runResult' = [runResult EXCEPT !.returned = (next = "done")]
          /\ pc' = next
  /\ UNCHANGED <<aiEnabled, results, alerts, zapCalls, failed, warned, reportCalls>>
  /\ UNCHANGED <<analyzeVars, scoreVars, summaryVars>>
  /\ UNCHANGED otherVars

\* index.js lines 41-56: main exits with 0 when run reported success, with 1
\* otherwise
Exit ==
  /\ pc = "done"
  /\ exitCode' = IF runResult.success THEN 0 ELSE 1
  /\ pc' = "exited"
  /\ UNCHANGED signal
  /\ UNCHANGED <<aiEnabled, results, runResult, alerts, zapCalls, failed, warned,
                 browser, reportCalls, cleanups>>
  /\ UNCHANGED <<analyzeVars, scoreVars, summaryVars, fallbackVars, enrichVars, moreVars>>

\* the stages during which a signal is drawn
SignalStages == {"setup", "tests", "scan", "ai"}

\* index.js lines 65-74: the handlers of SIGINT and SIGTERM call
\* process.exit(0); the run is not resumed
Signal ==
  /\ pc \in SignalStages
  /\ \E sig \in {"SIGINT", "SIGTERM"} : signal' = sig
  /\ exitCode' = 0
  /\ pc' = "exited"
  /\ UNCHANGED <<aiEnabled, results, runResult, alerts, zapCalls, failed, warned,
                 browser, reportCalls, cleanups>>
  /\ UNCHANGED <<analyzeVars, scoreVars, summaryVars, fallbackVars, enrichVars, moreVars>>

Next ==
  \/ Initialize
  \/ SetupZAPSession
  \/ RunTests
  \/ RunSecurityScan
  \/ RunAIAnalysis
  \/ NextAnalyze
  \/ DetectAndScore
  \/ NextScore
  \/ Summarize
  \/ NextSummary
  \/ AIAnalysisCompleted
  \/ AIAnalysisFailed
  \/ GenerateReport
  \/ Cleanup
  \/ Exit
  \/ Signal

Spec == Init /\ [][Next]_vars

(***************************************************************************)
(* Specification of repeated calls of generateFallbackSummary on one       *)
(* scanResults object while the clock advances.                            *)
(***************************************************************************)
\* severity counts around the thresholds of the posture rules
FallbackArgs ==
  {[totalFindings |-> h + m + l, riskBreakdown |-> [High |-> h, Medium |-> m, Low |-> l]] :
     h \in {0, 1, 4}, m \in {0, 1, 6}, l \in {0, 11}}

\* time passes between two calls
Tick ==
  /\ fpc = "calling"
  /\ now < MaxClock
  /\ now' = now + 1
  /\ UNCHANGED <<fpc, fallbackArg, fallbackSummaries>>
  /\ UNCHANGED <<analyzeVars, scoreVars, summaryVars, runVars, enrichVars, mainVars, moreVars>>

GenerateFallbackSummaryCall ==
  /\ fpc = "calling"
  /\ Len(fallbackSummaries) < MaxCalls
  /\ fallbackSummaries' = Append(fallbackSummaries, GenerateFallbackSummaryAt(fallbackArg, now))
  /\ UNCHANGED <<fpc, now, fallbackArg>>
  /\ UNCHANGED <<analyzeVars, scoreVars, summaryVars, runVars, enrichVars, mainVars, moreVars>>

InitFallback ==
  /\ fpc = "calling" /\ now = 0 /\ fallbackArg \in FallbackArgs /\ fallbackSummaries = <<>>
  /\ EnrichIdle /\ MainIdle /\ MoreIdle
  /\ isEnabled = TRUE /\ rateLimits = TRUE /\ batchSize = 1 /\ maxVulnerabilities = 0 /\ AnalyzeIdle
  /\ ScoreIdle /\ SummaryIdle /\ RunIdle

NextFallback == Tick \/ GenerateFallbackSummaryCall

SpecFallback == InitFallback /\ [][NextFallback]_vars

(***************************************************************************)
(* Specification of one call of analyzeVulnerability on a drawn finding    *)
(* and a drawn outcome of the provider request.                            *)
(***************************************************************************)
\* a failure, or a text in which each of the two numeric sections is
\* missing or holds one of the section texts
EnrichOutcomes ==
  {Failure(k) : k \in ProviderFailures}
    \cup {Text(r, f) : r \in Sections \cup {Absent}, f \in Sections \cup {Absent}}

AnalyzeVulnerabilityCall ==
  /\ epc = "called"
  /\ enriched' = AnalyzeVulnerability(isEnabled, enrichArg, enrichResponse).value
  /\ epc' = "returned"
  /\ UNCHANGED <<enrichArg, enrichResponse>>
  /\ UNCHANGED <<analyzeVars, scoreVars, summaryVars, runVars, fallbackVars, mainVars, moreVars>>

InitEnrich ==
  /\ epc = "called"
  /\ enrichArg \in {Finding(1, r) : r \in ScannerRisks}
  /\ enrichResponse \in EnrichOutcomes
  /\ enriched = enrichArg
  /\ isEnabled \in BOOLEAN /\ rateLimits = TRUE /\ batchSize = 1 /\ maxVulnerabilities = 0
  /\ AnalyzeIdle /\ ScoreIdle /\ SummaryIdle /\ RunIdle /\ FallbackIdle /\ MainIdle
  /\ MoreIdle

NextEnrich == AnalyzeVulnerabilityCall

SpecEnrich == InitEnrich /\ [][NextEnrich]_vars

(***************************************************************************)
(* AIAnalyzer.condenseScanResults.  A finding carries its position in the  *)
(* scanner's list (id), its risk and the length of its description (-1:    *)
(* the alert has no description).  A description of the digest is given by *)
(* the number of characters kept from the original and the number of       *)
(* characters appended.                                                    *)
(***************************************************************************)
MaxCondensed == 2
TopFindingsLimit == 10
DescriptionLimit == 200
NoDescription == -1
\* '...'.length and String(undefined).length
EllipsisLength == 3
UndefinedLength == 9
DescriptionLengths == {NoDescription, 5, DescriptionLimit, DescriptionLimit + 1}

Alert(id, risk, description) == [id |-> id, risk |-> risk, description |-> description]

\* lines 606-607: f.risk === 'High' || f.risk === 'Medium'
IsTopRisk(f) == f.risk = "High" \/ f.risk = "Medium"

\* String.prototype.substring(0, n) on a string of the given length
Substring(length, n) == Min(length, n)

\* line 613: f.description?.substring(0, 200) + '...'
CondensedDescription(description) ==
  IF description = NoDescription
  THEN [kept |-> 0, appended |-> UndefinedLength + EllipsisLength]
  ELSE [kept |-> Substring(description, DescriptionLimit), appended |-> EllipsisLength]

DescriptionLength(d) == d.kept + d.appended

\* lines 605-614: topFindings
CondenseScanResults(findings) ==
  LET top == JsSlice(SelectSeq(findings, IsTopRisk), 0, TopFindingsLimit)
  IN [j \in 1..Len(top) |->
        [id |-> top[j].id, risk |-> top[j].risk,
         description |-> CondensedDescription(top[j].description)]]

\* the findings drawn: some High findings, then up to MaxCondensed findings
\* of any risk and description, then some more High findings
CondenseArgs ==
  {[j \in 1..(before + Len(middle) + after) |->
      IF j <= before \/ j > before + Len(middle)
      THEN Alert(j, "High", 5)
      ELSE Alert(j, middle[j - before].risk, middle[j - before].description)] :
     before \in {0, TopFindingsLimit - 1},
     after \in {0, 2},
     middle \in UNION {[1..n -> [risk : ScannerRisks, description : DescriptionLengths]] :
                         n \in 0..MaxCondensed}}

CondenseScanResultsCall ==
  /\ cpc = "called"
  /\ digest' = CondenseScanResults(condenseArg)
  /\ cpc' = "returned"
  /\ UNCHANGED condenseArg
  /\ UNCHANGED <<analyzeVars, scoreVars, summaryVars, runVars, fallbackVars, enrichVars, mainVars>>
  /\ UNCHANGED <<waitVars, startVars>>

InitCondense ==
  /\ cpc = "called" /\ condenseArg \in CondenseArgs /\ digest = <<>>
  /\ isEnabled = TRUE /\ rateLimits = TRUE /\ batchSize = 1 /\ maxVulnerabilities = 0
  /\ AnalyzeIdle /\ ScoreIdle /\ SummaryIdle /\ RunIdle
  /\ FallbackIdle /\ EnrichIdle /\ MainIdle
  /\ WaitIdle /\ StartIdle

NextCondense == CondenseScanResultsCall

SpecCondense == InitCondense /\ [][NextCondense]_vars

(***************************************************************************)
(* ZAPClient.waitForSpiderCompletion and waitForActiveScanCompletion.      *)
(* Time is counted in ticks of 5 seconds: the spider loop sleeps 1 tick    *)
(* and the active-scan loop 2 ticks between polls.  A status request takes *)
(* up to MaxPollTime ticks to be answered; axios.get is called without a   *)
(* timeout option, so a request may also stay unanswered.                  *)
(***************************************************************************)
MaxTimeout == 3
MaxPollTime == 1
ErrorSentinel == -1
\* parseInt(response.status) of an answer, or -1 when the request failed
Progresses == {ErrorSentinel, 0, 50, 100}
Interval(kind) == IF kind = "spider" THEN 1 ELSE 2

\* lines 312 and 433: progress === 100
Complete(p) == p = 100

\* lines 309 and 430: while (Date.now() - startTime < timeoutMs)
WaitWhile ==
  /\ wpc = "while"
  /\ IF elapsed < timeoutMs
     THEN wpc' = "poll" /\ UNCHANGED waitResult
     ELSE wpc' = "returned" /\ waitResult' = "false"
  /\ UNCHANGED <<waitFor, timeoutMs, elapsed, progress, polls>>
  /\ UNCHANGED <<analyzeVars, scoreVars, summaryVars, runVars, fallbackVars, enrichVars, mainVars>>
  /\ UNCHANGED <<condenseVars, startVars>>

\* lines 310-315 with getSpiderProgress / getActiveScanProgress: the status
\* request is answered or fails, and the loop returns true for 100
PollAnswered ==
  /\ wpc = "poll"
  /\ \E p \in Progresses, took \in 0..MaxPollTime :
       /\ progress' = p
       /\ elapsed' = elapsed + took
       /\ IF Complete(p)
          THEN wpc' = "returned" /\ waitResult' = "true"
          ELSE wpc' = "sleep" /\ UNCHANGED waitResult
  /\ polls' = polls + 1
  /\ UNCHANGED <<waitFor, timeoutMs>>
  /\ UNCHANGED <<analyzeVars, scoreVars, summaryVars, runVars, fallbackVars, enrichVars, mainVars>>
  /\ UNCHANGED <<condenseVars, startVars>>

\* makeRequest line 102: the request is never answered and never fails
PollUnanswered ==
  /\ wpc = "poll"
  /\ wpc' = "hung"
  /\ UNCHANGED <<waitFor, timeoutMs, elapsed, progress, polls, waitResult>>
  /\ UNCHANGED <<analyzeVars, scoreVars, summaryVars, runVars, fallbackVars, enrichVars, mainVars>>
  /\ UNCHANGED <<condenseVars, startVars>>

\* lines 321 and 442: the sleep between two polls
WaitSleep ==
  /\ wpc = "sleep"
  /\ elapsed' = elapsed + Interval(waitFor)
  /\ wpc' = "while"
  /\ UNCHANGED <<waitFor, timeoutMs, progress, polls, waitResult>>
  /\ UNCHANGED <<analyzeVars, scoreVars, summaryVars, runVars, fallbackVars, enrichVars, mainVars>>
  /\ UNCHANGED <<condenseVars, startVars>>

InitWait ==
  /\ wpc = "while" /\ waitFor \in {"spider", "ascan"} /\ timeoutMs \in 0..MaxTimeout
  /\ elapsed = 0 /\ progress = 0 /\ polls = 0 /\ waitResult = "none"
  /\ isEnabled = TRUE /\ rateLimits = TRUE /\ batchSize = 1 /\ maxVulnerabilities = 0
  /\ AnalyzeIdle /\ ScoreIdle /\ SummaryIdle /\ RunIdle
  /\ FallbackIdle /\ EnrichIdle /\ MainIdle
  /\ CondenseIdle /\ StartIdle

NextWait == WaitWhile \/ PollAnswered \/ PollUnanswered \/ WaitSleep

\* the steps of the loop are taken and a pending request comes to an end,
\* answered or not
SpecWait ==
  /\ InitWait /\ [][NextWait]_vars
  /\ WF_vars(WaitWhile) /\ WF_vars(WaitSleep) /\ WF_vars(PollAnswered \/ PollUnanswered)

(***************************************************************************)
(* ZAPClient.startSpider and ZAPClient.startActiveScan: up to three        *)
(* scan-start requests with fewer and fewer parameters.  A request is      *)
(* recorded with its parameter set, the value of its recurse parameter,    *)
(* the mode the scanner was in when it was sent, the number of attempts    *)
(* that had failed before, and what the scanner answered.                  *)
(***************************************************************************)
ScanIds == {"0", "1"}
NullId == "null"
\* response.scan of an answer that has no such field
NoScanField == "undefined"
Modes == {"safe", "protect", "standard"}
ParameterSets == <<"full", "minimal", "basic">>
Rank(set) == CHOOSE r \in 1..3 : ParameterSets[r] = set

\* the parameter names of the three requests
ParameterNames(kind, set) ==
  IF set = "basic" THEN {"url"}
  ELSE IF kind = "spider"
       THEN IF set = "full"
            THEN {"url", "maxChildren", "recurse", "contextName", "subtreeOnly"}
            ELSE {"url", "maxChildren", "recurse"}
       ELSE IF set = "full"
            THEN {"url", "recurse", "inScopeOnly", "scanPolicyName", "method", "postData"}
            ELSE {"url", "recurse", "inScopeOnly"}

\* the values sent for recurse and maxChildren ("absent": not sent)
RecurseSent(kind, set, configured) ==
  IF set = "basic" THEN "absent"
  ELSE IF set = "full" THEN (IF configured THEN "true" ELSE "false")
  ELSE IF kind = "spider" THEN "true" ELSE "false"

MaxChildrenSent(kind, set, configured) ==
  IF kind # "spider" \/ set = "basic" THEN 0
  ELSE IF set = "full" THEN (IF configured = 0 THEN 10 ELSE configured)
  ELSE 10

\* what the scanner may answer to a scan-start request: an id, or an error
\* (with or without 'mode_violation' in the message of the exception);
\* in safe mode an active scan is refused
Refused(violation) == [ok |-> FALSE, scan |-> NullId, modeViolation |-> violation]
Started(id) == [ok |-> TRUE, scan |-> id, modeViolation |-> FALSE]
Answers(kind, mode) ==
  IF kind = "ascan" /\ mode = "safe" THEN {Refused(TRUE), Refused(FALSE)}
  ELSE {Refused(FALSE)} \cup {Started(id) : id \in ScanIds \cup {NoScanField}}
       \cup (IF kind = "ascan" /\ mode = "protect" THEN {Refused(TRUE)} ELSE {})

\* where startSpider goes on when includeInContext raised: the exception
\* leaves the function
IncludeFailedRaises == "threw"

\* startSpider line 245 inside the try of line 243: the catch of line 259
\* goes on with the minimal request
IncludeFailed == "minimal"

\* the position after a failed request (lines 259-291, 379-412)
AfterFailure(set) == IF set = "full" THEN "minimal" ELSE IF set = "minimal" THEN "basic" ELSE "returned"

\* startSpider lines 243-245: includeInContext
IncludeInContext ==
  /\ kpc = "include"
  /\ \/ kpc' = "full" /\ UNCHANGED failedAttempts
     \/ kpc' = IncludeFailed /\ failedAttempts' = failedAttempts + 1
  /\ UNCHANGED <<startKind, zapMode, recurse, maxChildren, sent, scanId>>
  /\ UNCHANGED <<analyzeVars, scoreVars, summaryVars, runVars, fallbackVars, enrichVars, mainVars>>
  /\ UNCHANGED <<condenseVars, waitVars>>

\* startActiveScan lines 353-359: the mode is read; the request may fail,
\* and in safe mode an Error is thrown: both go to the catch of line 375,
\* with a message that does not hold 'mode_violation'
ViewMode ==
  /\ kpc = "mode"
  /\ \/ /\ zapMode # "safe"
        /\ kpc' = "full" /\ UNCHANGED failedAttempts
     \/ /\ zapMode = "safe"
        /\ kpc' = "minimal" /\ failedAttempts' = failedAttempts + 1
     \/ \* the mode request failed
        /\ kpc' = "minimal" /\ failedAttempts' = failedAttempts + 1
  /\ UNCHANGED <<startKind, zapMode, recurse, maxChildren, sent, scanId>>
  /\ UNCHANGED <<analyzeVars, scoreVars, summaryVars, runVars, fallbackVars, enrichVars, mainVars>>
  /\ UNCHANGED <<condenseVars, waitVars>>

\* one scan-start request and what follows from its answer
ScanRequest ==
  /\ kpc \in {"full", "minimal", "basic"}
  /\ \E answer \in Answers(startKind, zapMode) :
       /\ sent' = Append(sent, [set |-> kpc,
                                names |-> ParameterNames(startKind, kpc),
                                recurse |-> RecurseSent(startKind, kpc, recurse),
                                maxChildren |-> MaxChildrenSent(startKind, kpc, maxChildren),
                                mode |-> zapMode,
                                after |-> failedAttempts,
                                answer |-> answer])
       /\ IF answer.ok
          THEN /\ scanId' = answer.scan
               /\ kpc' = "returned"
               /\ UNCHANGED failedAttempts
          ELSE /\ failedAttempts' = failedAttempts + 1
               /\ IF startKind = "ascan" /\ kpc = "full" /\ answer.modeViolation
                  THEN \* lines 379-382
                       kpc' = "returned" /\ scanId' = NullId
                  ELSE /\ kpc' = AfterFailure(kpc)
                       /\ scanId' = IF kpc = "basic" THEN NullId ELSE scanId
  /\ UNCHANGED <<startKind, zapMode, recurse, maxChildren>>
  /\ UNCHANGED <<analyzeVars, scoreVars, summaryVars, runVars, fallbackVars, enrichVars, mainVars>>
  /\ UNCHANGED <<condenseVars, waitVars>>

InitStart ==
  /\ startKind \in {"spider", "ascan"}
  /\ kpc = IF startKind = "spider" THEN "include" ELSE "mode"
  /\ zapMode \in Modes /\ recurse \in BOOLEAN
  /\ maxChildren \in (IF startKind = "spider" THEN {0, 5} ELSE {0})
  /\ failedAttempts = 0 /\ sent = <<>> /\ scanId = "none"
  /\ isEnabled = TRUE /\ rateLimits = TRUE /\ batchSize = 1 /\ maxVulnerabilities = 0
  /\ AnalyzeIdle /\ ScoreIdle /\ SummaryIdle /\ RunIdle
  /\ FallbackIdle /\ EnrichIdle /\ MainIdle
  /\ CondenseIdle /\ WaitIdle

NextStart == IncludeInContext \/ ViewMode \/ ScanRequest

SpecStart == InitStart /\ [][NextStart]_vars

(***************************************************************************)
(* Properties.                                                             *)
(***************************************************************************)
Ids(s) == [j \in 1..Len(s) |-> s[j].id]
\* the finding of the caller's original array with the given id
Original(id) == input[id]
\* prioritization has run in this call
Prioritized == apc \in {"for", "batch"} \/ (apc = "returned" /\ isEnabled /\ input # <<>>)
\* the findings left without a request: the rest of the prioritized array
Deferred == JsSlice(vulnerabilities, Len(toAnalyze), Len(vulnerabilities))

\* the severity weights as the claim states them
ClaimWeight(r) ==
  CASE r = "High" -> 4
    [] r = "Medium" -> 3
    [] r = "Low" -> 2
    [] r = "Informational" -> 1

\* s is in descending severity weight, ties in input order
InPriorityOrder(s) ==
  \A a, b \in 1..Len(s) :
    (a < b /\ s[a].risk \in Risks /\ s[b].risk \in Risks) =>
      \/ ClaimWeight(s[a].risk) > ClaimWeight(s[b].risk)
      \/ (ClaimWeight(s[a].risk) = ClaimWeight(s[b].risk) /\ s[a].id < s[b].id)

\* C3: once prioritization has run, the prioritized list and the selected
\* findings are in descending severity weight (High 4, Medium 3, Low 2,
\* Informational 1) with findings of equal severity in input order; for
\* Scenario A with a budget of 3 the selected findings are the two High (in
\* input order) and the Medium, and Low and Informational are deferred.
C3_StablePriorityOrder ==
  Prioritized =>
    /\ InPriorityOrder(vulnerabilities)
    /\ InPriorityOrder(toAnalyze)
    /\ (input = ScenarioA /\ maxVulnerabilities = 3) =>
          (Ids(toAnalyze) = <<1, 5, 2>> /\ Ids(Deferred) = <<3, 4>>)

C3_Witness ==
  /\ apc = "returned" /\ isEnabled /\ input = ScenarioA
  /\ maxVulnerabilities = 3 /\ batchSize = 2
  /\ Ids(returned) = <<1, 5, 2, 3, 4>>

\* C4: when analyzeVulnerabilities returns for a budget >= 0, the selected
\* findings are the first min(len, budget) of the prioritized list, selected
\* and deferred together are as many as the input, the returned list holds
\* every input finding exactly once, and a deferred finding is returned as it
\* was passed in, without enrichment.
C4_BudgetPartition ==
  (apc = "returned" /\ maxVulnerabilities >= 0) =>
    /\ Len(returned) = Len(input)
    /\ \A id \in 1..Len(input) :
         Cardinality({j \in 1..Len(returned) : returned[j].id = id}) = 1
    /\ (isEnabled /\ input # <<>>) =>
         /\ Len(toAnalyze) = Min(Len(input), maxVulnerabilities)
         /\ toAnalyze = SubSeq(vulnerabilities, 1, Len(toAnalyze))
         /\ Len(toAnalyze) + Len(Deferred) = Len(input)
         /\ Ids(returned) = Ids(toAnalyze) \o Ids(Deferred)
         /\ \A j \in Len(toAnalyze) + 1..Len(returned) :
              returned[j] = Original(returned[j].id)

C4_Witness ==
  /\ apc = "returned" /\ isEnabled /\ Len(input) = 3 /\ maxVulnerabilities = 2
  /\ Len(toAnalyze) = 2 /\ Len(Deferred) = 1
  /\ returned[1].aiAnalysis.present /\ ~returned[3].aiAnalysis.present
  /\ Ids(returned) # Ids(input)

\* C5: analyzeVulnerability never raises to its caller; when the provider
\* throws, times out, refuses the connection, rejects for rate limiting or
\* returns null or empty text, the finding is pushed unchanged, without an
\* enrichment, and the loop goes on: every request so far has pushed exactly
\* one finding, and at the return every selected finding has had its request.
C5_EnrichmentNeverThrows ==
  /\ ~threw
  /\ (apc \in {"for", "batch"} \/ (apc = "returned" /\ Prioritized)) =>
        /\ requests <= Len(toAnalyze)
        /\ \A j \in 1..requests : analyzedVulnerabilities[j].id = toAnalyze[j].id
        /\ (requests > 0 /\ lastOutcome.kind \in ProviderFailures) =>
              /\ analyzedVulnerabilities[requests] = toAnalyze[requests]
              /\ ~analyzedVulnerabilities[requests].aiAnalysis.present
  /\ (apc = "returned" /\ Prioritized) => requests = Len(toAnalyze)

\* a request failed and the next finding was enriched all the same
C5_Witness ==
  /\ apc = "returned" /\ requests = 2
  /\ lastOutcome.kind = "text"
  /\ ~returned[1].aiAnalysis.present /\ returned[2].aiAnalysis.present

\* C7: analyzeVulnerabilities is never in its batch loop with a batch size
\* that is not positive (such a configuration is rejected at startup).
C7_BatchSizePositive ==
  apc \in {"for", "batch"} => batchSize > 0

\* C6: calculateRiskScore returns 0 for a missing or empty finding list and a
\* value in [0,10] for every other list, whatever the severities and whatever
\* the enrichment risk scores (out of range, unparsable, signed) are.
C6_RiskScoreBounds ==
  spc = "returned" =>
    IF ~scoreArg.defined \/ scoreArg.list = <<>>
    THEN riskScore = 0
    ELSE riskScore >= 0 /\ riskScore <= 100

C6_Witness ==
  /\ spc = "returned" /\ scoreArg.defined /\ Len(scoreArg.list) = 2
  /\ scoreArg.list[1].risk = "High"
  /\ scoreArg.list[1].aiAnalysis.businessRiskScore = Num(1500)
  /\ scoreArg.list[2].aiAnalysis.businessRiskScore = Words
  /\ riskScore > 0 /\ riskScore <= 100

\* a narrative came back from generateExecutiveSummary and the provider was
\* asked at most once
SummaryReturned ==
  /\ executiveSummary.summary # "null"
  /\ summaryRequests <= 1
  /\ ~isEnabled => (summaryRequests = 0 /\ executiveSummary.summary = "disabled-notice")

\* the fallback is used when the provider fails, and the method tells which
\* narrative was used
SummaryMethodRecorded ==
  isEnabled =>
    /\ executiveSummary.method \in {"rule-based-fallback", "ai-generated"}
    /\ (summaryRequests > 0 /\ summaryOutcome.kind \in ProviderFailures) =>
          executiveSummary.method = "rule-based-fallback"
    /\ executiveSummary.method = "ai-generated" =>
          (summaryRequests = 1 /\ summaryOutcome.kind = "text")

\* C10 as stated: generateExecutiveSummary returns a narrative; whenever the
\* estimated size of the prompt exceeds the token limit the rule-based
\* fallback is used and no provider request is made; whenever the provider
\* fails or returns nothing the fallback is used; method records which
\* narrative was used.
C10_Original ==
  xpc = "returned" =>
    /\ SummaryReturned
    /\ SummaryMethodRecorded
    /\ (isEnabled /\ EstimateTokens(promptLength) > tokenLimit) =>
          (executiveSummary.method = "rule-based-fallback" /\ summaryRequests = 0)

\* C10 as amended: generateExecutiveSummary returns a narrative; whenever the
\* estimated size of the prompt exceeds the token limit and the rule-based
\* summary is enabled in the configuration, the rule-based fallback is used
\* and no provider request is made; whenever the provider fails or returns
\* nothing the fallback is used; method records which narrative was used.
C10_SummaryFallback ==
  xpc = "returned" =>
    /\ SummaryReturned
    /\ SummaryMethodRecorded
    /\ (isEnabled /\ EstimateTokens(promptLength) > tokenLimit /\ enableRuleBasedSummary) =>
          (executiveSummary.method = "rule-based-fallback" /\ summaryRequests = 0)

C10_Witness ==
  /\ xpc = "returned" /\ isEnabled /\ enableRuleBasedSummary
  /\ EstimateTokens(promptLength) > tokenLimit
  /\ executiveSummary.method = "rule-based-fallback" /\ summaryRequests = 0
\* the stages of which this.results keeps a degraded mark: the object has
\* no property for one
DegradedStages(res) == {}

\* C1: when the Tests stage, the Scan stage or the Enrichment stage fails,
\* the run still reaches report generation with a non-null result, and the
\* result records the failed stage as degraded.
C1_FailedStageStillReports ==
  (pc = "done" /\ failed \cap {"Tests", "Scan", "Enrichment"} # {}) =>
    /\ reportCalls = 1
    /\ ("Report" \notin failed) => (runResult.success /\ runResult.results)
    /\ failed \cap {"Tests", "Scan", "Enrichment"} \subseteq DegradedStages(results)

\* C2: a run ends without generating a report only after a failure of
\* initialization or setup; a failure of the Tests stage leaves empty test
\* records and the run still goes through scan, enrichment and report.
C2_AbortOnlyFromSetup ==
  /\ (pc = "done" /\ reportCalls = 0) => failed \cap {"Initialize", "Setup"} # {}
  /\ (pc = "done" /\ "Tests" \in failed) => (results.testResults = <<>> /\ reportCalls = 1)

\* C8: the findings handed to the report generator are in the order in which
\* alert retrieval returned them.
C8_ScannerOrder ==
  (reportCalls = 1 /\ alerts # <<>>) => Ids(results.vulnerabilities) = Ids(alerts)

\* C9: when the scan stage yields zero findings, no call of the analyzer is
\* made and no provider request is sent, the enrichment stage is neither
\* failed nor warned about, overallRiskScore is 0, and the run goes on to
\* report generation.
C9_ZeroFindingsSkipEnrichment ==
  /\ pc \in {"analyzeVulnerabilities", "calculateRiskScore", "generateExecutiveSummary"} =>
       Len(input) > 0
  /\ ((pc = "report" \/ reportCalls = 1) /\ Len(results.vulnerabilities) = 0) =>
       /\ requests = 0 /\ summaryRequests = 0
       /\ apc = "idle" /\ spc = "idle" /\ xpc = "idle"
       /\ "Enrichment" \notin (failed \cup warned)
       /\ results.overallRiskScore = 0

C9_Witness ==
  /\ pc = "report" /\ aiEnabled /\ isEnabled
  /\ "alerts" \in {zapCalls[j] : j \in DOMAIN zapCalls}
  /\ alerts = <<>> /\ Len(results.vulnerabilities) = 0
  /\ requests = 0 /\ summaryRequests = 0 /\ results.overallRiskScore = 0
\* the object without its time stamp
WithoutGeneratedAt(obj) == [f \in DOMAIN obj \ {"generatedAt"} |-> obj[f]]

SectionFields ==
  {"businessImpact", "technicalSeverity", "exploitationLikelihood", "falsePositiveScore",
   "remediationSteps", "codeExamples", "businessRiskScore"}

\* an enrichment was attached by the call
Enriched == epc = "returned" /\ enriched.aiAnalysis.present

\* the section of the provider text that a field is taken from
SectionOf(text, field) ==
  IF field = "businessRiskScore" THEN text.risk
  ELSE IF field = "falsePositiveScore" THEN text.fp
  ELSE Absent

\* C12: section extraction is total: a section missing from the provider
\* text yields the empty string and a section that is there yields its text;
\* for a text with only 'BUSINESS RISK SCORE: 7.5' the risk score is 7.5 and
\* every other section field is the empty string; the numeric value of a
\* field is its first numeric token, 0 when it has none.
C12_SectionExtractionTotal ==
  Enriched =>
    /\ \A f \in SectionFields :
         /\ enriched.aiAnalysis[f] \in Sections
         /\ enriched.aiAnalysis[f] =
              IF SectionOf(enrichResponse, f) = Absent THEN EmptyString
              ELSE SectionOf(enrichResponse, f)
         /\ ExtractNumericValue(enriched.aiAnalysis[f]) =
              IF enriched.aiAnalysis[f].t \in {"num", "signed"}
              THEN enriched.aiAnalysis[f].v ELSE 0
    /\ enrichResponse = Text(Num(75), Absent) =>
         /\ ExtractNumericValue(enriched.aiAnalysis.businessRiskScore) = 75
         /\ \A f \in SectionFields \ {"businessRiskScore"} :
              enriched.aiAnalysis[f] = EmptyString

C12_Witness ==
  /\ Enriched
  /\ enrichResponse = Text(Num(75), Absent)
  /\ enriched.aiAnalysis.businessRiskScore = Num(75)
  /\ enriched.aiAnalysis.falsePositiveScore = EmptyString
  /\ enriched.aiAnalysis.businessImpact = EmptyString
\* C15: whenever a finding carries an enrichment, its risk score lies in
\* [0,10] and its false-positive likelihood in [0,100], whatever numbers the
\* provider's text contains, and absent fields are empty strings.
C15_EnrichmentRanges ==
  Enriched =>
    /\ ExtractNumericValue(enriched.aiAnalysis.businessRiskScore) \in 0..100
    /\ ExtractNumericValue(enriched.aiAnalysis.falsePositiveScore) \in 0..1000
    /\ \A f \in SectionFields :
         SectionOf(enrichResponse, f) = Absent => enriched.aiAnalysis[f] = EmptyString
\* C13: the process exits with code 0 only if a report was rendered; a
\* failure of report generation and a failure of initialization or setup
\* give a non-zero exit code.
C13_ExitZeroOnlyWithReport ==
  /\ exitCode = 0 => (reportCalls = 1 /\ "Report" \notin failed /\ runResult.reportPaths)
  /\ (pc = "exited" /\ failed \cap {"Initialize", "Setup", "Report"} # {}) => exitCode > 0

\* C14: when SIGINT or SIGTERM arrives during a run, the run goes on to
\* report generation with the data it has and is not terminated without a
\* result.
C14_SignalProceedsToReport ==
  (signal # "none" /\ pc = "exited") => (reportCalls = 1 /\ runResult.returned)

\* C17: if checkZAPStatus reports status = false at initialization, initialize
\* fails and the run is aborted before the browser is launched and before a
\* test scenario or a scan is started.
C17_UnreachableScannerAborts ==
  ScannerUnreachable =>
    /\ "Initialize" \in failed
    /\ browser = "none"
    /\ pc \in {"cleanup", "done", "exited"}
    /\ reportCalls = 0

\* C20: with enrichment disabled by configuration and a non-empty findings
\* list, the enrichment stage is skipped without provider requests and the
\* reported overallRiskScore is the rounded mean of the findings' severity
\* base scores.
C20_ScoreWithoutEnrichment ==
  ((pc = "report" \/ reportCalls = 1) /\ ~aiEnabled /\ Len(results.vulnerabilities) > 0) =>
    /\ requests = 0 /\ summaryRequests = 0
    /\ "Enrichment" \notin (failed \cup warned)
    /\ results.overallRiskScore = CalculateRiskScore(Given(results.vulnerabilities))

\* the finding list with every risk value outside the four tables' keys
\* replaced by Informational
AsInformational(list) ==
  [j \in 1..Len(list) |->
     IF list[j].risk \in Risks THEN list[j] ELSE [list[j] EXCEPT !.risk = "Informational"]]

\* C16: a finding whose risk value is missing or unknown is scored exactly
\* like an Informational finding (base score 1): calculateRiskScore returns
\* for a list what it returns for the list with the unknown risks replaced by
\* Informational.
C16_UnknownRiskIsInformational ==
  (spc = "returned" /\ scoreArg.defined) =>
    riskScore = CalculateRiskScore(Given(AsInformational(scoreArg.list)))

\* C18: when analyzeVulnerabilities has returned, the array the caller passed
\* in holds the same elements in the same order as before the call.
C18_CallerArrayUnchanged ==
  apc = "returned" => vulnerabilities = input

\* the score of one finding, in twentieths, with the range test of line 693
\* taken as 0 <= aiScore <= 10
VulnScoreFromZero(vuln) ==
  LET score == BaseScore(vuln.risk)
  IN IF vuln.aiAnalysis.present /\ Truthy(vuln.aiAnalysis.businessRiskScore)
     THEN LET aiScore == ExtractNumericValue(vuln.aiAnalysis.businessRiskScore)
          IN IF aiScore >= 0 /\ aiScore <= 100
             THEN 10 * score + aiScore
             ELSE 20 * score
     ELSE 20 * score

RECURSIVE TotalScoreFromZero(_)
TotalScoreFromZero(list) ==
  IF list = <<>> THEN 0
  ELSE VulnScoreFromZero(Head(list)) + TotalScoreFromZero(Tail(list))

\* the enrichment of the finding, if any, has a risk score that is a number
NumericRiskScore(vuln) ==
  vuln.aiAnalysis.present => vuln.aiAnalysis.businessRiskScore.t = "num"

\* C19: for findings of the four severities whose enrichment risk score, if
\* any, is a number, the overall score is the mean, rounded to one decimal
\* place, of the per-finding scores: the base score, or the mean of base
\* score and enrichment risk score when that is within [0,10], 0 included.
C19_MeanWithEnrichmentFromZero ==
  ( /\ spc = "returned" /\ scoreArg.defined /\ scoreArg.list # <<>>
    /\ \A j \in 1..Len(scoreArg.list) :
         scoreArg.list[j].risk \in Risks /\ NumericRiskScore(scoreArg.list[j]) ) =>
    riskScore = RoundToTenth(TotalScoreFromZero(scoreArg.list), Len(scoreArg.list))

\* the requests of one call at its return: one per selected finding, where
\* the selected findings are the first min(len, budget) of the input
OneRequestPerSelected ==
  (apc = "returned" /\ isEnabled /\ input # <<>>) =>
    /\ providerRequests = Min(Len(input), maxVulnerabilities)
    /\ \A id \in 1..Len(input) :
         Cardinality({j \in 1..Len(returned) : returned[j].id = id}) = 1

\* C21: in one call of analyzeVulnerabilities with enrichment enabled the
\* provider is asked exactly once for each selected finding and never for a
\* deferred one (min(len(findings), maxVulnerabilities) requests in all); a
\* failed request is not repeated, and no finding is pushed or returned twice.
C21_OneRequestPerSelectedFinding ==
  /\ providerRequests <= Len(toAnalyze)
  /\ \A j, k \in 1..Len(analyzedVulnerabilities) :
       analyzedVulnerabilities[j].id = analyzedVulnerabilities[k].id => j = k
  /\ OneRequestPerSelected

\* the digest holds at most 10 findings, of risk High or Medium only, in the
\* order they have in the scanner's list
DigestSelection ==
  /\ Len(digest) <= TopFindingsLimit
  /\ \A j \in 1..Len(digest) :
       /\ digest[j].risk \in {"High", "Medium"}
       /\ digest[j].id \in 1..Len(condenseArg)
       /\ condenseArg[digest[j].id].risk = digest[j].risk
  /\ \A j, k \in 1..Len(digest) : j < k => digest[j].id < digest[k].id

\* C22: the digest of condenseScanResults holds at most 10 findings, only of
\* severity High or Medium, in their original relative order, and every
\* description in the digest is at most 200 characters long.
C22_DigestBounded ==
  cpc = "returned" =>
    /\ DigestSelection
    /\ \A j \in 1..Len(digest) : DescriptionLength(digest[j].description) <= DescriptionLimit

\* C23: a rule-based narrative stored by the enrichment stage of run is
\* built from the counts of the run: its total and its counts per severity
\* are those of the run's findings, so that its posture is the one the
\* thresholds give for these counts (more than 3 High: 'Critical Issues
\* Identified'; at least one High: never 'Good').
C23_FallbackFromRunCounts ==
  results.executiveSummary.method = "rule-based-fallback" =>
    LET found == results.vulnerabilities
        high == CountRisk(found, "High")
        medium == CountRisk(found, "Medium")
        low == CountRisk(found, "Low")
    IN /\ results.executiveSummary.total = Len(found)
       /\ results.executiveSummary.high = high
       /\ results.executiveSummary.medium = medium
       /\ results.executiveSummary.low = low
       /\ results.executiveSummary.overallPosture = FallbackPosture(high, medium, low)
       /\ high > 0 => results.executiveSummary.overallPosture # "Good"

Called(op) == \E j \in DOMAIN zapCalls : zapCalls[j] = op

\* C24: when startSpider or startActiveScan returned null, runSecurityScan
\* does not wait for the completion of that scan, does not fail, and goes on
\* to retrieve the alerts.
C24_NullScanIdContinues ==
  /\ Called("spider:null") => (~Called("spiderWait") /\ "Scan" \notin failed /\ Called("alerts"))
  /\ Called("ascan:null") => (~Called("ascanWait") /\ "Scan" \notin failed /\ Called("alerts"))

\* C26: when the scan stage is over the alerts have been retrieved, after
\* the crawl and the active scan if these ran, whatever scan types are
\* enabled; the alerts retrieved are the findings of the run and the summary
\* counts are the counts per severity of that list.
C26_AlertRetrievalMandatory ==
  pc = "ai" =>
    /\ Called("alerts")
    /\ zapCalls[Len(zapCalls)] = "alerts"
    /\ results.vulnerabilities = alerts
    /\ results.securitySummary.totalAlerts = Len(alerts)
    /\ results.securitySummary.high = CountRisk(alerts, "High")
    /\ results.securitySummary.medium = CountRisk(alerts, "Medium")
    /\ results.securitySummary.low = CountRisk(alerts, "Low")

\* what the wait loops do as long as their requests come to an end: true is
\* returned only for a poll that reported 100, false only when the time is
\* up, and the error sentinel never ends the loop
WaitSafety ==
  /\ waitResult = "true" => progress = 100
  /\ waitResult = "false" => elapsed >= timeoutMs
  /\ (wpc \in {"sleep", "while", "poll"} /\ polls > 0) => progress # 100
  /\ wpc = "sleep" => waitResult = "none"

\* C25: every call of waitForSpiderCompletion / waitForActiveScanCompletion
\* terminates: it returns true at the first poll reporting 100 and false once
\* the elapsed time has reached timeoutMs.
C25_WaitTerminates ==
  <>(wpc = "returned")

\* Math.ceil(n / b) for n >= 0 and b # 0
CeilDiv(n, b) == IF b > 0 THEN (n + b - 1) \div b ELSE 0 - (n \div (0 - b))

\* the inter-batch delays due for the selected findings: one between two
\* consecutive batches
BatchDelaysDue ==
  IF toAnalyze = <<>> THEN 0 ELSE Max(CeilDiv(Len(toAnalyze), batchSize) - 1, 0)

\* C27: the requests of analyzeVulnerabilities are made one after the other,
\* each followed by its inter-request delay before the next one starts, and
\* consecutive batches are separated by one inter-batch delay: there are
\* never more than ceil(n / batchSize) - 1 inter-batch delays for n selected
\* findings and exactly that many at the return; no request is made while
\* run is still in a stage before the enrichment.
C27_SequentialWithDelays ==
  /\ requestDelays = requests
  /\ requests > 0 => pc \notin {"initialize", "setup", "tests", "scan", "ai"}
  /\ ((apc \in {"for", "batch"} \/ (apc = "returned" /\ Prioritized)) /\ batchSize # 0) =>
        batchDelays <= BatchDelaysDue
  /\ (apc = "returned" /\ Prioritized) => batchDelays = BatchDelaysDue

\* C28: startActiveScan never sends an active-scan request while the
\* scanner is in safe mode (it switches the scanner to standard mode first).
C28_NoActiveScanInSafeMode ==
  startKind = "ascan" => \A j \in DOMAIN sent : sent[j].mode # "safe"

C30_CleanupExactlyOnce ==
  /\ cleanups <= 1
  /\ pc # "threw"
  /\ pc = "cleanup" => (cleanups = 0 /\ ~runResult.returned)
  /\ runResult.returned => cleanups = 1
  /\ pc = "done" => (runResult.returned /\ cleanups = 1)

\* report generation failed, closing the browser raised, run returned
C30_Witness ==
  /\ pc = "done" /\ cleanups = 1 /\ runResult.returned /\ ~runResult.success
  /\ "Report" \in failed /\ browser = "open"

====
